---------------------------- MODULE Spec2Model ----------------------------
(***************************************************************************)
(* A model of tools/icuutil.py: the ICU data regeneration utilities.       *)
(*                                                                         *)
(* The module follows the control flow of GenerateIcuDataFiles and of the  *)
(* operations it is built from (PrepareIcuBuild, MakeAndCopyIcuDataFiles,  *)
(* _MakeLangInfo, _MakeIcuDataFilesOnce,                                   *)
(* _MakeIcuDataFilesWithoutTimeZoneFiles) and of                           *)
(* MakeAndCopyOverlayTzIcuData, one action per step of the code.  External *)
(* tools (runConfigureICU, make, ant, java, pkgdata) are opaque: their     *)
(* exit status and the number of files they leave are chosen by \E.        *)
(* An uncaught Python exception (CalledProcessError, NameError,            *)
(* SystemExit, FileExistsError, FileNotFoundError) ends the process: the   *)
(* model moves to pc = "halted" and nothing is enabled any more.           *)
(***************************************************************************)
EXTENDS Integers, Sequences, FiniteSets, TLC

\* ------------------------------------------------------------------ bounds

\* The derived file langInfo.txt takes its content from 0..MaxLang.
MaxLang == 2
\* The regeneration reports "changed" at most MaxChanged times per run.
MaxChanged == 2
\* The build may leave 0..MaxDatFiles files matching icudt??l.dat.
MaxDatFiles == 2
\* The icu4j-data target may leave 2..MaxJarFiles .jar files.
MaxJarFiles == 4
\* _MakeIcuDataFilesWithoutTimeZoneFiles is called again, by hand, at most
\* MaxFinalCalls times after GenerateIcuDataFiles returned.
MaxFinalCalls == 1
\* MakeAndCopyOverlayTzIcuData is called at most MaxOverlayCalls times.
MaxOverlayCalls == 1

\* ------------------------------------------------------- program constants

\* len(jarfiles) != 3
ExpectedJars == 3
\* len(dat_files) != 1
ExpectedDatFiles == 1

LangVals == 0..MaxLang
DatCounts == 0..MaxDatFiles
JarCounts == 2..MaxJarFiles
Jars == 1..ExpectedJars
\* One workspace per call of _MakeIcuDataFilesOnce.
MaxWs == MaxChanged + 1
ExitCodes == {0, 1}

\* ------------------------------------------------------------ directories

StartDir == <<"start", 0>>
NoDir == <<"none", 0>>
TmpDir(n) == <<"tmp", n>>
\* icu_build_dir = '%s/icu' % os.getcwd(): an absolute path
IcuBuildDir(n) == <<"icu", n>>
Icu4jDir == <<"icu4j", 0>>
Icu4jToolsMiscDir == <<"icu4j/tools/misc", 0>>
\* res_staging_dir = '%s/overlay_res' % icu_build_dir
StagingDir(d) == <<"overlay_res", d[2]>>
WsOf(d) == d[2]

\* ---------------------------------------------------------- file contents

\* The two filter payloads, by name.
ICU_DATA_FILTERS == "ICU_DATA_FILTERS"
ICU_MLDATA_FILTERS == "ICU_MLDATA_FILTERS"

OldDat == [lst |-> "old", lang |-> 0]
NoFile == [exists |-> FALSE, content |-> 0, mtime |-> 0]
\* What `make` packs into the .dat file: the resources the .lst file names and
\* the text data under icu4c/source/data, langInfo.txt among them.
DatOf(lst, lang) == [lst |-> lst, lang |-> lang]
\* The three ICU4J jars made from the build: only the first holds locale data.
JarOf(j, dat) == [jar |-> j, lst |-> dat.lst, lang |-> IF j = 1 THEN dat.lang ELSE 0]
TestDataOf(dat) == [lst |-> dat.lst, lang |-> dat.lang]
OldJar(j) == [jar |-> j, lst |-> "old", lang |-> 0]

FreshWs == [exists |-> FALSE, filterFile |-> "none", configured |-> "none",
            lst |-> "none", datCount |-> 0, dat |-> OldDat, jarCount |-> 0,
            tests |-> FALSE, tzRes |-> FALSE, staging |-> FALSE, pkgDat |-> FALSE]

VARIABLES
  pc,                    \* the step the process is at
  top,                   \* the function the caller invoked
  mid,                   \* "once" / "final": the build function that is active
  cwd,                   \* os.getcwd()
  original_working_dir,  \* the local of the active operation
  icu_build_dir,         \* the parameter of the active operation
  last_icu_build_dir,    \* the local of GenerateIcuDataFiles
  data_filters_json,     \* the parameter of PrepareIcuBuild
  copy_icu4c_dat_file_only, \* the parameter of MakeAndCopyIcuDataFiles
  tmpCount,              \* temporary directories made so far
  ws,                    \* the build workspaces
  stubDat,               \* icu4c/source/stubdata/icudt??l.dat
  jarDest,               \* icu4j/main/shared/data/*.jar
  testDataDest,          \* icu4c/source/test/testdata/out
  overlayDest,           \* dest_file of MakeAndCopyOverlayTzIcuData
  langInfoDst,           \* icu4c/source/data/misc/langInfo.txt
  langInfoOut,           \* /tmp/langInfo.txt
  clock,                 \* the file system's time
  rc,                    \* p.returncode of the last pkgdata run
  haltCause,             \* the exception that ended the process
  haltAt,                \* the step it was raised in
  hist                   \* history: what the run has done so far

progVars == <<pc, top, mid, cwd, original_working_dir, icu_build_dir,
              last_icu_build_dir, data_filters_json, copy_icu4c_dat_file_only,
              tmpCount, rc, haltCause, haltAt>>
destVars == <<stubDat, jarDest, testDataDest, overlayDest>>
langVars == <<langInfoDst, langInfoOut, clock>>
vars == <<progVars, ws, destVars, langVars, hist>>

\* hist records, for the properties below and never read by the program:
\*   trace         the calls GenerateIcuDataFiles made: "B" _MakeIcuDataFilesOnce,
\*                 "R" _MakeLangInfo, "F" _MakeIcuDataFilesWithoutTimeZoneFiles
\*   changed       how often _MakeLangInfo returned True
\*   regen         the last return value of _MakeLangInfo: "none", "changed", "unchanged"
\*   dirty         langInfo.txt was overwritten and no full build started since
\*   outBuild      the number of full builds done when /tmp/langInfo.txt was written
\*   copies        the copies made by the MakeAndCopyIcuDataFiles call entered last
\*   jarsCopied    the jars it copied
\*   targets       the make targets it ran
\*   atEntry       the destinations as they were when it, or
\*                 MakeAndCopyOverlayTzIcuData, was entered
\*   datSeen       the number of .dat files datFile last found (-1: none yet)
\*   jarSeen       the number of .jar files last found (-1: none yet)
\*   entered       the operation entered last, and the cwd then
\*   exited        the operation left last (return or exception), with the cwd
\*                 at its entry and at its exit
\*   toolFailed    the external tool that returned non-zero, "" if none did
\*   genReturned   GenerateIcuDataFiles returned
\*   finalArgs     the workspace each final variant build was given
\*   finalOutputs  stubDat after each completed final variant build
\*   finalCalls    calls of the final variant build made by hand
\*   overlayCalls  calls of MakeAndCopyOverlayTzIcuData
HistInit ==
  [trace |-> <<>>, changed |-> 0, regen |-> "none", dirty |-> FALSE, outBuild |-> 0,
   copies |-> {}, jarsCopied |-> {}, targets |-> {},
   atEntry |-> [dat |-> OldDat, jar |-> [j \in Jars |-> OldJar(j)],
               test |-> TestDataOf(OldDat), overlay |-> FALSE],
   datSeen |-> -1, jarSeen |-> -1,
   entered |-> [op |-> "none", cwd |-> StartDir],
   exited |-> [op |-> "none", entry |-> StartDir, exit |-> StartDir, ok |-> TRUE],
   toolFailed |-> "", genReturned |-> FALSE,
   finalArgs |-> <<>>, finalOutputs |-> <<>>, finalCalls |-> 0, overlayCalls |-> 0]

Builds == Len(SelectSeq(hist.trace, LAMBDA e : e = "B"))

Init ==
  /\ pc = "idle"
  /\ top = "none"
  /\ mid = "none"
  /\ cwd = StartDir
  /\ original_working_dir = NoDir
  /\ icu_build_dir = NoDir
  /\ last_icu_build_dir = NoDir
  /\ data_filters_json = "none"
  /\ copy_icu4c_dat_file_only = FALSE
  /\ tmpCount = 0
  /\ ws = [n \in 1..MaxWs |-> FreshWs]
  /\ stubDat = OldDat
  /\ jarDest = [j \in Jars |-> OldJar(j)]
  /\ testDataDest = TestDataOf(OldDat)
  /\ overlayDest = FALSE
  /\ langInfoDst \in {[exists |-> TRUE, content |-> c, mtime |-> 0] : c \in LangVals}
  /\ langInfoOut \in {NoFile, [exists |-> TRUE, content |-> 0, mtime |-> 0]}
  /\ clock = 0
  /\ rc = 0
  /\ haltCause = ""
  /\ haltAt = ""
  /\ hist = HistInit

\* ----------------------------------------------------------------- helpers

Append1(h, e) == [h EXCEPT !.trace = Append(@, e)]
Entered(h, op) == [h EXCEPT !.entered = [op |-> op, cwd |-> cwd]]
\* The operation entered last is left, with the process in directory `at`.
Exited(h, op, at, ok) ==
  [h EXCEPT !.exited = [op |-> op, entry |-> h.entered.cwd, exit |-> at, ok |-> ok]]
ToolFailed(h, tool) == [h EXCEPT !.toolFailed = tool]

\* An exception nobody catches: the process ends where it is.
Halt(cause, op, h) ==
  /\ pc' = "halted"
  /\ haltCause' = cause
  /\ haltAt' = pc
  /\ hist' = Exited(h, op, cwd, FALSE)
  /\ UNCHANGED <<top, mid, cwd, original_working_dir, icu_build_dir,
                 last_icu_build_dir, data_filters_json, copy_icu4c_dat_file_only,
                 tmpCount, rc>>

\* i18nutil.SwitchToNewTemporaryDirectory(): a fresh directory becomes the cwd.
SwitchToNewTemporaryDirectory(count) == TmpDir(count + 1)

\* ziputil.ZipCompare(jarfile, icu_jarfile): the two archives are identical.
ZipCompare(a, b) == a = b

\* filecmp.cmp(f1, f2), shallow: files with the same os.stat signature (size,
\* mtime) are taken as equal; otherwise sizes, then bytes, are compared.
FileSize(f) == f.content \div 2
FileSig(f) == <<FileSize(f), f.mtime>>
FileCmp(f1, f2) ==
  IF FileSig(f1) = FileSig(f2) THEN TRUE
  ELSE IF FileSize(f1) # FileSize(f2) THEN FALSE
  ELSE f1.content = f2.content

\* `make` in a configured build directory: the .lst file is rebuilt only when
\* it is missing (hence the unlink in the final variant build), and n files
\* matching icudt??l.dat are left in data/out/tmp.
RunMake(w, n, lang) ==
  LET lst == IF w.lst = "none" THEN w.configured ELSE w.lst
  IN [w EXCEPT !.lst = lst, !.datCount = n, !.dat = DatOf(lst, lang)]

\* ------------------------------------------------------------ entry points

\* The caller runs GenerateIcuDataFiles(), once.
CallGenerate ==
  /\ pc = "idle"
  /\ hist.trace = <<>>
  /\ ~hist.genReturned
  /\ pc' = "once_enter"
  /\ top' = "generate"
  /\ UNCHANGED <<mid, cwd, original_working_dir, icu_build_dir, last_icu_build_dir,
                 data_filters_json, copy_icu4c_dat_file_only, tmpCount, rc,
                 haltCause, haltAt, ws, destVars, langVars, hist>>

\* The caller runs _MakeIcuDataFilesWithoutTimeZoneFiles again on the
\* workspace GenerateIcuDataFiles ended with.
CallFinal ==
  /\ pc = "idle"
  /\ hist.genReturned
  /\ hist.finalCalls < MaxFinalCalls
  /\ pc' = "final_enter"
  /\ top' = "final"
  /\ hist' = [hist EXCEPT !.finalCalls = @ + 1]
  /\ UNCHANGED <<mid, cwd, original_working_dir, icu_build_dir, last_icu_build_dir,
                 data_filters_json, copy_icu4c_dat_file_only, tmpCount, rc,
                 haltCause, haltAt, ws, destVars, langVars>>

\* The caller runs MakeAndCopyOverlayTzIcuData on one of the workspaces.
CallOverlay ==
  /\ pc = "idle"
  /\ hist.genReturned
  /\ hist.overlayCalls < MaxOverlayCalls
  /\ \E n \in 1..tmpCount : icu_build_dir' = IcuBuildDir(n)
  /\ pc' = "ov_enter"
  /\ top' = "overlay"
  /\ hist' = [hist EXCEPT !.overlayCalls = @ + 1]
  /\ UNCHANGED <<mid, cwd, original_working_dir, last_icu_build_dir,
                 data_filters_json, copy_icu4c_dat_file_only, tmpCount, rc,
                 haltCause, haltAt, ws, destVars, langVars>>

\* ------------------------------------------------- _MakeIcuDataFilesOnce

\* _MakeIcuDataFilesOnce up to its call of PrepareIcuBuild.
MakeIcuDataFilesOnce ==
  /\ pc = "once_enter"
  /\ tmpCount < MaxWs
  /\ tmpCount' = tmpCount + 1
  /\ cwd' = SwitchToNewTemporaryDirectory(tmpCount)
  /\ icu_build_dir' = IcuBuildDir(tmpCount + 1)
  /\ mid' = "once"
  /\ data_filters_json' = ICU_MLDATA_FILTERS
  /\ pc' = "prep_enter"
  /\ hist' = [Append1(hist, "B") EXCEPT !.dirty = FALSE]
  /\ UNCHANGED <<top, original_working_dir, last_icu_build_dir,
                 copy_icu4c_dat_file_only, rc, haltCause, haltAt, ws, destVars,
                 langVars>>

\* The build directory its caller keeps: last_icu_build_dir = _MakeIcuDataFilesOnce()
KeepFirstBuildDir(old, new) == IF old = NoDir THEN new ELSE old
LastBuildDir(old, new) == new

\* return icu_build_dir, and the assignment in GenerateIcuDataFiles.
OnceReturn ==
  /\ pc = "once_ret"
  /\ last_icu_build_dir' = LastBuildDir(last_icu_build_dir, icu_build_dir)
  /\ mid' = "none"
  /\ pc' = "lang_enter"
  /\ UNCHANGED <<top, cwd, original_working_dir, icu_build_dir, data_filters_json,
                 copy_icu4c_dat_file_only, tmpCount, rc, haltCause, haltAt, ws,
                 destVars, langVars, hist>>

\* ------------------------------------------------------- PrepareIcuBuild

\* if not os.path.exists(icu_build_dir): os.mkdir(icu_build_dir)
MkdirAlways(exists) == TRUE
NeedsMkdir(exists) == ~exists

\* getcwd, mkdir, chdir and the write of icu4c_data_filters.json.
PrepareEnter ==
  /\ pc = "prep_enter"
  /\ LET n == WsOf(icu_build_dir)
         h == Entered(hist, "PrepareIcuBuild")
     IN IF NeedsMkdir(ws[n].exists) /\ ws[n].exists
        THEN /\ Halt("FileExistsError", "PrepareIcuBuild", h)
             /\ UNCHANGED ws
        ELSE /\ original_working_dir' = cwd
             /\ cwd' = icu_build_dir
             /\ ws' = [ws EXCEPT ![n].exists = TRUE,
                                 ![n].filterFile = IF data_filters_json # "none"
                                                   THEN data_filters_json ELSE @]
             /\ pc' = "prep_configure"
             /\ hist' = h
             /\ UNCHANGED <<top, mid, icu_build_dir, last_icu_build_dir,
                            data_filters_json, copy_icu4c_dat_file_only, tmpCount,
                            rc, haltCause, haltAt>>
  /\ UNCHANGED <<destVars, langVars>>

\* subprocess.check_call(runConfigureICU), chdir back; the caller then calls
\* MakeAndCopyIcuDataFiles, with copy_icu4c_dat_file_only=True in the final
\* variant build.
PrepareConfigure ==
  /\ pc = "prep_configure"
  /\ \E code \in ExitCodes :
       IF code # 0
       THEN /\ Halt("CalledProcessError", "PrepareIcuBuild",
                    ToolFailed(hist, "runConfigureICU"))
            /\ UNCHANGED ws
       ELSE /\ ws' = [ws EXCEPT ![WsOf(cwd)].configured =
                        IF data_filters_json # "none" THEN ws[WsOf(cwd)].filterFile
                        ELSE "none"]
            /\ cwd' = original_working_dir
            /\ pc' = "mk_enter"
            /\ copy_icu4c_dat_file_only' = (mid = "final")
            /\ hist' = Exited(hist, "PrepareIcuBuild", original_working_dir, TRUE)
            /\ UNCHANGED <<top, mid, original_working_dir, icu_build_dir,
                           last_icu_build_dir, data_filters_json, tmpCount, rc,
                           haltCause, haltAt>>
  /\ UNCHANGED <<destVars, langVars>>

\* ------------------------------------------------ MakeAndCopyIcuDataFiles

\* Where MakeAndCopyIcuDataFiles returns to.
AfterMake == IF mid = "once" THEN "once_ret" ELSE "final_ret"

\* original_working_dir = os.getcwd(); os.chdir(icu_build_dir)
MakeEnter ==
  /\ pc = "mk_enter"
  /\ original_working_dir' = cwd
  /\ cwd' = icu_build_dir
  /\ pc' = "mk_make"
  /\ hist' = [Entered(hist, "MakeAndCopyIcuDataFiles") EXCEPT
                !.copies = {}, !.jarsCopied = {}, !.targets = {},
                !.datSeen = -1, !.jarSeen = -1,
                !.atEntry = [dat |-> stubDat, jar |-> jarDest, test |-> testDataDest,
                             overlay |-> overlayDest]]
  /\ UNCHANGED <<top, mid, icu_build_dir, last_icu_build_dir, data_filters_json,
                 copy_icu4c_dat_file_only, tmpCount, rc, haltCause, haltAt, ws,
                 destVars, langVars>>

\* subprocess.check_call(['make', '-j32'])
MakeAll ==
  /\ pc = "mk_make"
  /\ \E code \in ExitCodes, n \in DatCounts :
       IF code # 0
       THEN /\ Halt("CalledProcessError", "MakeAndCopyIcuDataFiles",
                    ToolFailed(hist, "make"))
            /\ UNCHANGED ws
       ELSE /\ ws' = [ws EXCEPT ![WsOf(cwd)] = RunMake(@, n, langInfoDst.content)]
            /\ pc' = "mk_dat"
            /\ hist' = [hist EXCEPT !.targets = @ \cup {"all"}]
            /\ UNCHANGED <<top, mid, cwd, original_working_dir, icu_build_dir,
                           last_icu_build_dir, data_filters_json,
                           copy_icu4c_dat_file_only, tmpCount, rc, haltCause, haltAt>>
  /\ UNCHANGED <<destVars, langVars>>

\* datFile: if len(dat_files) != 1
DatCountAtLeast(n) == n >= ExpectedDatFiles
DatCountOk(n) == n = ExpectedDatFiles

\* if copy_icu4c_dat_file_only: return
NeverDatOnly(only) == FALSE
DatOnly(only) == only

\* datFile(icu_build_dir) and the copy of the .dat file to stubdata; with
\* copy_icu4c_dat_file_only the function returns here, the cwd as it is.  The
\* failure branch of datFile names `datfiles`, which is not defined: the
\* process ends with a NameError before the message and sys.exit(1).
CopyDat ==
  /\ pc = "mk_dat"
  /\ LET w == ws[WsOf(icu_build_dir)]
         h == [hist EXCEPT !.datSeen = w.datCount]
     IN IF ~DatCountOk(w.datCount)
        THEN /\ Halt("NameError", "MakeAndCopyIcuDataFiles", h)
             /\ UNCHANGED stubDat
        ELSE /\ stubDat' = w.dat
             /\ IF DatOnly(copy_icu4c_dat_file_only)
                THEN /\ pc' = AfterMake
                     /\ hist' = [Exited(h, "MakeAndCopyIcuDataFiles", cwd, TRUE) EXCEPT
                                   !.copies = @ \cup {"dat"},
                                   !.finalOutputs = IF mid = "final"
                                                    THEN Append(@, w.dat) ELSE @]
                ELSE /\ pc' = "mk_icu4j"
                     /\ hist' = [h EXCEPT !.copies = @ \cup {"dat"}]
             /\ UNCHANGED <<top, mid, cwd, original_working_dir, icu_build_dir,
                            last_icu_build_dir, data_filters_json,
                            copy_icu4c_dat_file_only, tmpCount, rc, haltCause, haltAt>>
  /\ UNCHANGED <<ws, jarDest, testDataDest, overlayDest, langVars>>

\* subprocess.check_call(['make', '-j32', 'icu4j-data'])
MakeIcu4jData ==
  /\ pc = "mk_icu4j"
  /\ \E code \in ExitCodes, k \in JarCounts :
       IF code # 0
       THEN /\ Halt("CalledProcessError", "MakeAndCopyIcuDataFiles",
                    ToolFailed(hist, "make icu4j-data"))
            /\ UNCHANGED ws
       ELSE /\ ws' = [ws EXCEPT ![WsOf(cwd)].jarCount = k]
            /\ pc' = "mk_tests"
            /\ hist' = [hist EXCEPT !.targets = @ \cup {"icu4j-data"}]
            /\ UNCHANGED <<top, mid, cwd, original_working_dir, icu_build_dir,
                           last_icu_build_dir, data_filters_json,
                           copy_icu4c_dat_file_only, tmpCount, rc, haltCause, haltAt>>
  /\ UNCHANGED <<destVars, langVars>>

\* subprocess.check_call(['make', '-j32', 'tests'])
MakeTests ==
  /\ pc = "mk_tests"
  /\ \E code \in ExitCodes :
       IF code # 0
       THEN /\ Halt("CalledProcessError", "MakeAndCopyIcuDataFiles",
                    ToolFailed(hist, "make tests"))
            /\ UNCHANGED ws
       ELSE /\ ws' = [ws EXCEPT ![WsOf(cwd)].tests = TRUE]
            /\ pc' = "mk_jars"
            /\ hist' = [hist EXCEPT !.targets = @ \cup {"tests"}]
            /\ UNCHANGED <<top, mid, cwd, original_working_dir, icu_build_dir,
                           last_icu_build_dir, data_filters_json,
                           copy_icu4c_dat_file_only, tmpCount, rc, haltCause, haltAt>>
  /\ UNCHANGED <<destVars, langVars>>

\* if len(jarfiles) != 3
JarCountAtLeast(n) == n >= ExpectedJars
JarCountOk(n) == n = ExpectedJars

\* glob('data/out/icu4j/*.jar') in the cwd, the count check, and the loop that
\* copies each jar ZipCompare does not find identical to the destination's.
CopyJars ==
  /\ pc = "mk_jars"
  /\ LET w == ws[WsOf(cwd)]
         h == [hist EXCEPT !.jarSeen = w.jarCount]
         differ == {j \in Jars : ~ZipCompare(JarOf(j, w.dat), jarDest[j])}
     IN IF ~JarCountOk(w.jarCount)
        THEN /\ Halt("SystemExit", "MakeAndCopyIcuDataFiles", h)
             /\ UNCHANGED jarDest
        ELSE /\ jarDest' = [j \in Jars |-> IF j \in differ THEN JarOf(j, w.dat)
                                            ELSE jarDest[j]]
             /\ pc' = "mk_testdata"
             /\ hist' = [h EXCEPT !.jarsCopied = differ,
                                  !.copies = IF differ # {} THEN @ \cup {"jar"} ELSE @]
             /\ UNCHANGED <<top, mid, cwd, original_working_dir, icu_build_dir,
                            last_icu_build_dir, data_filters_json,
                            copy_icu4c_dat_file_only, tmpCount, rc, haltCause, haltAt>>
  /\ UNCHANGED <<ws, stubDat, testDataDest, overlayDest, langVars>>

\* rmtree and copytree of the test data, chdir back, return.
CopyTestData ==
  /\ pc = "mk_testdata"
  /\ testDataDest' = TestDataOf(ws[WsOf(cwd)].dat)
  /\ cwd' = original_working_dir
  /\ pc' = AfterMake
  /\ hist' = [Exited(hist, "MakeAndCopyIcuDataFiles", original_working_dir, TRUE) EXCEPT
                !.copies = @ \cup {"testdata"},
                !.finalOutputs = IF mid = "final" THEN Append(@, stubDat) ELSE @]
  /\ UNCHANGED <<top, mid, original_working_dir, icu_build_dir, last_icu_build_dir,
                 data_filters_json, copy_icu4c_dat_file_only, tmpCount, rc,
                 haltCause, haltAt, ws, stubDat, jarDest, overlayDest, langVars>>

\* ---------------------------------------------------------- _MakeLangInfo

\* os.remove('/tmp/langInfo.txt') if it is there; os.chdir(icu4j_dir)
LangInfoEnter ==
  /\ pc = "lang_enter"
  /\ langInfoOut' = NoFile
  /\ cwd' = Icu4jDir
  /\ pc' = "lang_ant_icu4jJar"
  /\ hist' = Append1(Entered(hist, "_MakeLangInfo"), "R")
  /\ UNCHANGED <<top, mid, original_working_dir, icu_build_dir, last_icu_build_dir,
                 data_filters_json, copy_icu4c_dat_file_only, tmpCount, rc,
                 haltCause, haltAt, ws, destVars, langInfoDst, clock>>

\* check_call(['ant', 'icu4jJar']); os.chdir(icu4j_dir/tools/misc)
AntIcu4jJar ==
  /\ pc = "lang_ant_icu4jJar"
  /\ \E code \in ExitCodes :
       IF code # 0
       THEN Halt("CalledProcessError", "_MakeLangInfo", ToolFailed(hist, "ant icu4jJar"))
       ELSE /\ cwd' = Icu4jToolsMiscDir
            /\ pc' = "lang_ant_jar"
            /\ UNCHANGED <<top, mid, original_working_dir, icu_build_dir,
                           last_icu_build_dir, data_filters_json,
                           copy_icu4c_dat_file_only, tmpCount, rc, haltCause, haltAt,
                           hist>>
  /\ UNCHANGED <<ws, destVars, langVars>>

\* check_call(['ant', 'jar'])
AntJar ==
  /\ pc = "lang_ant_jar"
  /\ \E code \in ExitCodes :
       IF code # 0
       THEN Halt("CalledProcessError", "_MakeLangInfo", ToolFailed(hist, "ant jar"))
       ELSE /\ pc' = "lang_java"
            /\ UNCHANGED <<top, mid, cwd, original_working_dir, icu_build_dir,
                           last_icu_build_dir, data_filters_json,
                           copy_icu4c_dat_file_only, tmpCount, rc, haltCause, haltAt,
                           hist>>
  /\ UNCHANGED <<ws, destVars, langVars>>

\* check_call(['java', ... LocaleDistanceBuilder]): the tool writes
\* /tmp/langInfo.txt.  Its output is any content; once the file has changed
\* MaxChanged times the tool has converged and reproduces the committed file.
RunLocaleDistanceBuilder ==
  /\ pc = "lang_java"
  /\ \E code \in ExitCodes,
        g \in IF hist.changed < MaxChanged THEN LangVals ELSE {langInfoDst.content} :
       IF code # 0
       THEN /\ Halt("CalledProcessError", "_MakeLangInfo", ToolFailed(hist, "java"))
            /\ UNCHANGED <<langInfoOut, clock>>
       ELSE /\ clock' = clock + 1
            /\ langInfoOut' = [exists |-> TRUE, content |-> g, mtime |-> clock + 1]
            /\ pc' = "lang_cmp"
            /\ hist' = [hist EXCEPT !.outBuild = Builds]
            /\ UNCHANGED <<top, mid, cwd, original_working_dir, icu_build_dir,
                           last_icu_build_dir, data_filters_json,
                           copy_icu4c_dat_file_only, tmpCount, rc, haltCause, haltAt>>
  /\ UNCHANGED <<ws, destVars, langInfoDst>>

\* return False when the files are the same, True after the copy
AlwaysUnchanged(same) == FALSE
LangInfoChanged(same) == ~same

\* while _MakeLangInfo(): ...
LoopWhileNot(changed) == ~changed
LoopForever(changed) == TRUE
LoopContinues(changed) == changed

\* filecmp.cmp, the copy to langInfo.txt when the files differ, the return,
\* and the test of the while loop in GenerateIcuDataFiles.
LangInfoCompare ==
  /\ pc = "lang_cmp"
  /\ LET same == FileCmp(langInfoDst, langInfoOut)
         ret == LangInfoChanged(same)
     IN /\ IF same
           THEN UNCHANGED <<langInfoDst, clock>>
           ELSE /\ clock' = clock + 1
                /\ langInfoDst' = [exists |-> TRUE, content |-> langInfoOut.content,
                                   mtime |-> clock + 1]
        /\ pc' = IF LoopContinues(ret) THEN "once_enter" ELSE "final_enter"
        /\ hist' = [Exited(hist, "_MakeLangInfo", cwd, TRUE) EXCEPT
                      !.changed = IF ret THEN @ + 1 ELSE @,
                      !.regen = IF ret THEN "changed" ELSE "unchanged",
                      !.dirty = IF same THEN @ ELSE TRUE]
  /\ UNCHANGED <<top, mid, cwd, original_working_dir, icu_build_dir,
                 last_icu_build_dir, data_filters_json, copy_icu4c_dat_file_only,
                 tmpCount, rc, haltCause, haltAt, ws, destVars, langInfoOut>>

\* ------------------------------- _MakeIcuDataFilesWithoutTimeZoneFiles

\* list_file_path.unlink(missing_ok=True)
UnlinkLst(lst) == "none"

\* The call with last_icu_build_dir, the unlink of icudata.lst, and the call of
\* PrepareIcuBuild with ICU_DATA_FILTERS.
FinalEnter ==
  /\ pc = "final_enter"
  /\ icu_build_dir' = last_icu_build_dir
  /\ ws' = [ws EXCEPT ![WsOf(last_icu_build_dir)].lst = UnlinkLst(@)]
  /\ mid' = "final"
  /\ data_filters_json' = ICU_DATA_FILTERS
  /\ pc' = "prep_enter"
  /\ hist' = [hist EXCEPT !.trace = IF top = "generate" THEN Append(@, "F") ELSE @,
                          !.finalArgs = Append(@, last_icu_build_dir)]
  /\ UNCHANGED <<top, cwd, original_working_dir, last_icu_build_dir,
                 copy_icu4c_dat_file_only, tmpCount, rc, haltCause, haltAt,
                 destVars, langVars>>

\* _MakeIcuDataFilesWithoutTimeZoneFiles returns, and GenerateIcuDataFiles
\* with it when it was the caller.
FinalReturn ==
  /\ pc = "final_ret"
  /\ mid' = "none"
  /\ top' = "none"
  /\ pc' = "idle"
  /\ hist' = [hist EXCEPT !.genReturned = @ \/ top = "generate"]
  /\ UNCHANGED <<cwd, original_working_dir, icu_build_dir, last_icu_build_dir,
                 data_filters_json, copy_icu4c_dat_file_only, tmpCount, rc,
                 haltCause, haltAt, ws, destVars, langVars>>

\* ------------------------------------------- MakeAndCopyOverlayTzIcuData

\* original_working_dir = os.getcwd(); os.chdir(icu_build_dir)
OverlayEnter ==
  /\ pc = "ov_enter"
  /\ original_working_dir' = cwd
  /\ cwd' = icu_build_dir
  /\ pc' = "ov_make"
  /\ hist' = [Entered(hist, "MakeAndCopyOverlayTzIcuData") EXCEPT
                !.datSeen = -1,
                !.atEntry = [dat |-> stubDat, jar |-> jarDest, test |-> testDataDest,
                             overlay |-> overlayDest]]
  /\ UNCHANGED <<top, mid, icu_build_dir, last_icu_build_dir, data_filters_json,
                 copy_icu4c_dat_file_only, tmpCount, rc, haltCause, haltAt, ws,
                 destVars, langVars>>

\* subprocess.check_call(['make', '-j32']); whether the four time zone .res
\* files are in data/out/build afterwards is the build's business.
OverlayMake ==
  /\ pc = "ov_make"
  /\ \E code \in ExitCodes, n \in DatCounts, res \in BOOLEAN :
       IF code # 0
       THEN /\ Halt("CalledProcessError", "MakeAndCopyOverlayTzIcuData",
                    ToolFailed(hist, "make"))
            /\ UNCHANGED ws
       ELSE /\ ws' = [ws EXCEPT ![WsOf(cwd)] =
                        [RunMake(@, n, langInfoDst.content) EXCEPT !.tzRes = res]]
            /\ pc' = "ov_stage"
            /\ UNCHANGED <<top, mid, cwd, original_working_dir, icu_build_dir,
                           last_icu_build_dir, data_filters_json,
                           copy_icu4c_dat_file_only, tmpCount, rc, haltCause, haltAt,
                           hist>>
  /\ UNCHANGED <<destVars, langVars>>

\* datFile, os.mkdir(res_staging_dir), the copies of the .res files, the
\* write of tzdata.lst and os.chdir(res_staging_dir).
OverlayStage ==
  /\ pc = "ov_stage"
  /\ LET n == WsOf(icu_build_dir)
         h == [hist EXCEPT !.datSeen = ws[n].datCount]
     IN IF ~DatCountOk(ws[n].datCount)
        THEN /\ Halt("NameError", "MakeAndCopyOverlayTzIcuData", h)
             /\ UNCHANGED ws
        ELSE IF ws[n].staging
        THEN /\ Halt("FileExistsError", "MakeAndCopyOverlayTzIcuData", h)
             /\ UNCHANGED ws
        ELSE IF ~ws[n].tzRes
        THEN /\ Halt("FileNotFoundError", "MakeAndCopyOverlayTzIcuData", h)
             /\ ws' = [ws EXCEPT ![n].staging = TRUE]
        ELSE /\ ws' = [ws EXCEPT ![n].staging = TRUE]
             /\ cwd' = StagingDir(icu_build_dir)
             /\ pc' = "ov_pkgdata"
             /\ hist' = h
             /\ UNCHANGED <<top, mid, original_working_dir, icu_build_dir,
                            last_icu_build_dir, data_filters_json,
                            copy_icu4c_dat_file_only, tmpCount, rc, haltCause, haltAt>>
  /\ UNCHANGED <<destVars, langVars>>

\* subprocess.Popen(pkgdata ...); p.wait(); a non-zero p.returncode is printed
\* and nothing else.  A failed pkgdata may or may not have written the .dat.
OverlayPkgdata ==
  /\ pc = "ov_pkgdata"
  /\ \E code \in ExitCodes, wrote \in BOOLEAN :
       /\ code = 0 => wrote
       /\ rc' = code
       /\ ws' = [ws EXCEPT ![WsOf(icu_build_dir)].pkgDat = wrote]
       /\ hist' = IF code # 0 THEN ToolFailed(hist, "pkgdata") ELSE hist
  /\ pc' = "ov_copy"
  /\ UNCHANGED <<top, mid, cwd, original_working_dir, icu_build_dir,
                 last_icu_build_dir, data_filters_json, copy_icu4c_dat_file_only,
                 tmpCount, haltCause, haltAt, destVars, langVars>>

\* shutil.copyfile(generated_dat_file, dest_file), chdir back, return.
OverlayCopy ==
  /\ pc = "ov_copy"
  /\ IF ~ws[WsOf(icu_build_dir)].pkgDat
     THEN /\ Halt("FileNotFoundError", "MakeAndCopyOverlayTzIcuData", hist)
          /\ UNCHANGED overlayDest
     ELSE /\ overlayDest' = TRUE
          /\ cwd' = original_working_dir
          /\ pc' = "idle"
          /\ top' = "none"
          /\ hist' = Exited(hist, "MakeAndCopyOverlayTzIcuData", original_working_dir, TRUE)
          /\ UNCHANGED <<mid, original_working_dir, icu_build_dir, last_icu_build_dir,
                         data_filters_json, copy_icu4c_dat_file_only, tmpCount, rc,
                         haltCause, haltAt>>
  /\ UNCHANGED <<ws, stubDat, jarDest, testDataDest, langVars>>

\* ------------------------------------------------------------ the program

Next ==
  \/ CallGenerate
  \/ CallFinal
  \/ CallOverlay
  \/ MakeIcuDataFilesOnce
  \/ OnceReturn
  \/ PrepareEnter
  \/ PrepareConfigure
  \/ MakeEnter
  \/ MakeAll
  \/ CopyDat
  \/ MakeIcu4jData
  \/ MakeTests
  \/ CopyJars
  \/ CopyTestData
  \/ LangInfoEnter
  \/ AntIcu4jJar
  \/ AntJar
  \/ RunLocaleDistanceBuilder
  \/ LangInfoCompare
  \/ FinalEnter
  \/ FinalReturn
  \/ OverlayEnter
  \/ OverlayMake
  \/ OverlayStage
  \/ OverlayPkgdata
  \/ OverlayCopy

Spec == Init /\ [][Next]_vars

\* The process is sequential and every step it reaches is taken: a subprocess
\* call blocks until the tool exits, and then the next statement runs.
LiveSpec == Init /\ [][Next]_vars /\ WF_vars(Next)

\* ------------------------------------------------------------ properties

RECURSIVE Pattern(_)
\* The calls of a run in which the regeneration reported "changed" n times.
Pattern(n) == IF n = 0 THEN <<"B", "R", "F">> ELSE <<"B", "R">> \o Pattern(n - 1)
IsPrefix(s, t) == Len(s) <= Len(t) /\ SubSeq(t, 1, Len(s)) = s
FinalStarted == \E i \in DOMAIN hist.trace : hist.trace[i] = "F"
Finals == Len(SelectSeq(hist.trace, LAMBDA e : e = "F"))
Halted == pc = "halted"
InMakeAndCopy == hist.entered.op = "MakeAndCopyIcuDataFiles"
CurWs == ws[WsOf(icu_build_dir)]

\* C1: when _MakeLangInfo has returned True N times and then False,
\* GenerateIcuDataFiles has called _MakeIcuDataFilesOnce N+1 times when it
\* calls _MakeIcuDataFilesWithoutTimeZoneFiles, and its calls alternate:
\* build, regenerate, build, regenerate, ..., final.
C1_BuildsBeforeFinal ==
  /\ IsPrefix(hist.trace, Pattern(hist.changed))
  /\ FinalStarted => /\ hist.trace = Pattern(hist.changed)
                     /\ Builds = hist.changed + 1

C1_Witness == FinalStarted /\ hist.changed >= 2 /\ hist.genReturned

\* C2: when an operation is left, by return or by exception, the working
\* directory is the one it was entered with.
C2_CwdRestored == hist.exited.op # "none" => hist.exited.exit = hist.exited.entry

\* C3 as stated: when the number of .jar files found is not 3, the process has
\* halted and MakeAndCopyIcuDataFiles has copied nothing, the .dat file included.
C3_NoCopyBeforeJarHalt ==
  hist.jarSeen \notin {-1, ExpectedJars} =>
    /\ Halted
    /\ hist.copies = {}
    /\ stubDat = hist.atEntry.dat

\* C3 as amended: when the number of .jar files found is not 3, the process
\* has halted before any .jar file or test data was copied; the .dat file was
\* copied to stubdata before the jars were built.
C3_NoJarCopyAfterMismatch ==
  hist.jarSeen \notin {-1, ExpectedJars} =>
    /\ Halted
    /\ haltCause = "SystemExit"
    /\ hist.copies = {"dat"}
    /\ hist.jarsCopied = {}
    /\ jarDest = hist.atEntry.jar
    /\ testDataDest = hist.atEntry.test
    /\ stubDat = CurWs.dat

C3_Witness == Halted /\ hist.jarSeen = 4 /\ stubDat # hist.atEntry.dat

\* C4: when datFile finds a number of .dat files other than one, the process
\* has halted there and nothing downstream has run: no copy, no further make
\* target, no regeneration and no final variant build after the build.
C4_DatMismatchHalts ==
  hist.datSeen \notin {-1, ExpectedDatFiles} =>
    /\ Halted
    /\ haltAt \in {"mk_dat", "ov_stage"}
    /\ haltAt = "mk_dat" =>
         /\ hist.copies = {}
         /\ hist.jarsCopied = {}
         /\ hist.targets = {"all"}
         /\ stubDat = hist.atEntry.dat
         /\ jarDest = hist.atEntry.jar
         /\ testDataDest = hist.atEntry.test
         /\ mid = "once" => /\ hist.trace[Len(hist.trace)] = "B"
                            /\ ~FinalStarted
    /\ haltAt = "ov_stage" => overlayDest = hist.atEntry.overlay

C4_Witness == Halted /\ hist.datSeen \in {0, 2} /\ mid = "once" /\ Builds >= 2

\* C5: whenever an external tool has returned non-zero, the process has halted
\* on it with CalledProcessError.
C5_ToolFailureFatal ==
  hist.toolFailed # "" => Halted /\ haltCause = "CalledProcessError"

\* C6: when GenerateIcuDataFiles has returned, langInfo.txt has the content of
\* the /tmp/langInfo.txt generated after the last full build, it was not
\* overwritten since that build started, and the .dat file in stubdata was
\* built from it.
C6_FixedPoint ==
  hist.genReturned =>
    /\ langInfoOut.exists
    /\ langInfoOut.content = langInfoDst.content
    /\ hist.outBuild = Builds
    /\ ~hist.dirty
    /\ stubDat.lang = langInfoDst.content
    /\ jarDest[1].lang = langInfoDst.content

C6_Witness == hist.genReturned /\ hist.changed >= 1

\* C7: GenerateIcuDataFiles runs the final variant build at most once, only
\* after _MakeLangInfo returned False, as its last call, on the workspace of
\* the most recent full build and with ICU_DATA_FILTERS; every full build is
\* configured with ICU_MLDATA_FILTERS.
C7_FinalOnceOnLastWorkspace ==
  /\ Finals <= 1
  /\ FinalStarted => /\ hist.regen = "unchanged"
                     /\ hist.trace[Len(hist.trace)] = "F"
  /\ \A i \in DOMAIN hist.finalArgs : hist.finalArgs[i] = IcuBuildDir(Builds)
  /\ mid = "final" /\ pc # "final_ret" => data_filters_json = ICU_DATA_FILTERS
  /\ mid = "once" => data_filters_json = ICU_MLDATA_FILTERS
  /\ InMakeAndCopy /\ mid = "final" =>
       /\ CurWs.filterFile = ICU_DATA_FILTERS
       /\ CurWs.configured = ICU_DATA_FILTERS
       /\ CurWs.lst \in {"none", ICU_DATA_FILTERS}
  /\ InMakeAndCopy /\ mid = "once" =>
       /\ CurWs.filterFile = ICU_MLDATA_FILTERS
       /\ CurWs.configured = ICU_MLDATA_FILTERS
       /\ CurWs.lst \in {"none", ICU_MLDATA_FILTERS}

C7_Witness == hist.genReturned /\ Builds >= 2 /\ stubDat.lst = ICU_DATA_FILTERS

\* C8: GenerateIcuDataFiles, once called, returns or halts on a failure; it
\* does not leave the loop while _MakeLangInfo reports "changed".
C8_Terminates ==
  /\ [](hist.regen = "changed" => ~FinalStarted)
  /\ (top = "generate") ~> (hist.genReturned \/ Halted)

C8_Witness == hist.genReturned /\ hist.changed = MaxChanged

\* C9: every completed final variant build on the workspace leaves the same
\* .dat file in stubdata, and a final variant build stops only on a failing
\* tool or a wrong number of .dat files, the second time as the first.
C9_FinalIdempotent ==
  /\ \A i, j \in DOMAIN hist.finalOutputs : hist.finalOutputs[i] = hist.finalOutputs[j]
  /\ hist.finalOutputs # <<>> => stubDat = hist.finalOutputs[1]
  /\ Halted /\ mid = "final" => haltCause \in {"CalledProcessError", "NameError"}

C9_Witness == Len(hist.finalOutputs) >= 2 /\ pc = "idle"

\* C10: the final variant build runs the default make target only and copies
\* the .dat file only, the jars and the test data at the destination staying
\* as they were; a completed full build has copied the .dat file, the test
\* data and exactly the jars that differed from the destination's.
C10_FinalCopiesDatOnly ==
  /\ InMakeAndCopy /\ mid = "final" =>
       /\ pc \notin {"mk_icu4j", "mk_tests", "mk_jars", "mk_testdata"}
       /\ hist.copies \subseteq {"dat"}
       /\ hist.targets \subseteq {"all"}
       /\ hist.jarsCopied = {}
       /\ jarDest = hist.atEntry.jar
       /\ testDataDest = hist.atEntry.test
  /\ pc = "final_ret" => /\ hist.copies = {"dat"}
                         /\ stubDat = CurWs.dat
  /\ pc = "once_ret" =>
       /\ {"dat", "testdata"} \subseteq hist.copies
       /\ hist.targets = {"all", "icu4j-data", "tests"}
       /\ stubDat = CurWs.dat
       /\ testDataDest = TestDataOf(CurWs.dat)
       /\ \A j \in Jars : jarDest[j] = JarOf(j, CurWs.dat)
       /\ hist.jarsCopied = {j \in Jars : hist.atEntry.jar[j] # JarOf(j, CurWs.dat)}

C10_Witness == pc = "final_ret" /\ stubDat # hist.atEntry.dat /\ jarDest[1] # OldJar(1)

=============================================================================
